---- MODULE Spec2Model ----
(***************************************************************************)
(* Model of the flasknpm tutorial project: the project tree that the       *)
(* README builds step by step (Flask application, template, javascript     *)
(* source, npm manifest, installed packages), webpack.config.js, and the   *)
(* commands that produce and serve static/bundle.js.                       *)
(*                                                                         *)
(* Paths are sequences of segments.  The file system is a function from    *)
(* paths to file contents; a path outside its domain does not exist.       *)
(***************************************************************************)
EXTENDS Naturals, Sequences, FiniteSets, TLC

VARIABLES
    dirs,        \* directories that exist
    fs,          \* files: path -> content
    nodeModules, \* packages installed under node_modules/
    lastBuild,   \* outcome of the most recent webpack run
    builds,      \* number of webpack runs so far
    watching,    \* a `webpack --watch` process is running
    flask,       \* "stopped" or "running"
    response     \* last HTTP response the browser received

vars == <<dirs, fs, nodeModules, lastBuild, builds, watching, flask, response>>

\* Bounds of the exploration.
MaxEdits == 2
MaxBuilds == 2

----------------------------------------------------------------------------
\* Paths

\* The project directory (`cd flaskpack`); webpack.config.js and app.py both
\* live directly in it, so it is __dirname of the config and the root_path
\* of the Flask application.
ProjectDir == <<"flaskpack">>

\* path.resolve(base, rel) / resolution of a relative path against the
\* working directory: "." segments are dropped, the rest is appended.
PathResolve(base, rel) == base \o SelectSeq(rel, LAMBDA s : s # ".")

PathJoin(dir, name) == dir \o <<name>>

AppPyPath      == PathJoin(ProjectDir, "app.py")
TemplatesDir   == PathJoin(ProjectDir, "templates")
StaticDir      == PathJoin(ProjectDir, "static")
SrcDir         == PathJoin(ProjectDir, "src")
NodeModulesDir == PathJoin(ProjectDir, "node_modules")
IndexHtmlPath  == PathJoin(TemplatesDir, "index.html")
MyJsPath       == PathJoin(SrcDir, "my.js")
PackageJson    == PathJoin(ProjectDir, "package.json")
ConfigPath     == PathJoin(ProjectDir, "webpack.config.js")

Exists(p) == p \in DOMAIN fs

WriteFile(f, p, c) == [q \in DOMAIN f \cup {p} |-> IF q = p THEN c ELSE f[q]]

----------------------------------------------------------------------------
\* File contents

\* webpack.config.js with webpack's default output directory in place of
\* the application's static directory
ConfigDistOutput ==
    [kind   |-> "config",
     entry  |-> <<".", "src", "my.js">>,
     output |-> [filename |-> "bundle.js",
                 path     |-> PathResolve(ProjectDir, <<"dist">>)]]

\* webpack.config.js
Config ==
    [kind   |-> "config",
     entry  |-> <<".", "src", "my.js">>,
     output |-> [filename |-> "bundle.js",
                 path     |-> PathResolve(ProjectDir, <<"static">>)]]

\* templates/index.html: one script tag,
\* src = url_for('static', filename='bundle.js')
IndexHtml ==
    [kind   |-> "template",
     script |-> [endpoint |-> "static", filename |-> "bundle.js"]]

\* app.py: Flask(__name__) with the default static and template folders,
\* one route '/' rendering index.html
AppPy ==
    [kind |-> "app", route |-> <<>>, renders |-> "index.html",
     static_folder |-> "static", template_folder |-> "templates"]

\* src/my.js at a given revision: imports lodash, appends a component
MyJs(rev) == [kind |-> "js", rev |-> rev, imports |-> <<"lodash">>]

\* the arguments of the direct call
\* ./node_modules/.bin/webpack src/my.js static/bundle.js
CliArgs == [entry |-> <<"src", "my.js">>, output |-> <<"static", "bundle.js">>]

EmptyManifest ==
    [kind |-> "manifest", dependencies |-> {}, devDependencies |-> {},
     scripts |-> {}]

NoBuild == [status |-> "none", via |-> "none", emitted |-> {}]

----------------------------------------------------------------------------
\* Flask side

\* url_for(endpoint, filename=...): the URL path /<endpoint>/<filename>
UrlFor(script) == <<script.endpoint, script.filename>>

\* The static route of the application: /static/<filename> is served from
\* <root_path>/<static_folder>/<filename>.
ServeStatic(app, url) ==
    PathJoin(PathResolve(ProjectDir, <<app.static_folder>>), url[2])

\* The file the rendered page asks the server for.
ScriptFile == ServeStatic(AppPy, UrlFor(IndexHtml.script))

NoBody == [kind |-> "none"]

----------------------------------------------------------------------------
\* webpack

\* A bare import is looked up under node_modules/.
ResolveImport(spec) == PathJoin(NodeModulesDir, spec)

Range(seq) == {seq[i] : i \in DOMAIN seq}

Resolvable(f, nm, entryPath) ==
    /\ entryPath \in DOMAIN f
    /\ f[entryPath].kind = "js"
    /\ Range(f[entryPath].imports) \subseteq nm

\* The bundle generated from an entry file: our code plus the libraries it
\* imports.
Bundle(f, entryPath) ==
    [kind    |-> "bundle",
     modules |-> {[path |-> entryPath, rev |-> f[entryPath].rev]} \cup
                 {[path |-> ResolveImport(s), rev |-> 0] :
                      s \in Range(f[entryPath].imports)}]

\* One run of webpack from entry file to output file.
RunWebpack(entryPath, outDir, outName, via) ==
    /\ builds < MaxBuilds
    /\ "webpack" \in nodeModules
    /\ Resolvable(fs, nodeModules, entryPath)
    /\ fs' = WriteFile(fs, PathJoin(outDir, outName), Bundle(fs, entryPath))
    /\ dirs' = dirs \cup {outDir}
    /\ lastBuild' = [status |-> "ok", via |-> via,
                     emitted |-> {PathJoin(outDir, outName)}]
    /\ builds' = builds + 1

\* webpack started without arguments reads webpack.config.js.
RunConfigured(via) ==
    /\ Exists(ConfigPath)
    /\ LET c == fs[ConfigPath] IN
         RunWebpack(PathResolve(ProjectDir, c.entry),
                    c.output.path, c.output.filename, via)

----------------------------------------------------------------------------
\* Initial state: nothing but the working directory.

Init ==
    /\ dirs = {}
    /\ fs = <<>>
    /\ nodeModules = {}
    /\ lastBuild = NoBuild
    /\ builds = 0
    /\ watching = FALSE
    /\ flask = "stopped"
    /\ response = [status |-> 0, url |-> <<>>, body |-> NoBody]

----------------------------------------------------------------------------
\* Steps of the tutorial

\* mkdir -p flaskpack/templates flaskpack/static flaskpack/src
Mkdirs ==
    /\ ~({TemplatesDir, StaticDir, SrcDir} \subseteq dirs)
    /\ dirs' = dirs \cup {ProjectDir, TemplatesDir, StaticDir, SrcDir}
    /\ UNCHANGED <<fs, nodeModules, lastBuild, builds, watching, flask,
                   response>>

WriteAppPy ==
    /\ ProjectDir \in dirs
    /\ ~Exists(AppPyPath)
    /\ fs' = WriteFile(fs, AppPyPath, AppPy)
    /\ UNCHANGED <<dirs, nodeModules, lastBuild, builds, watching, flask,
                   response>>

\* The README opens the file as /template/index.html; the file is modelled
\* where render_template looks for it, in the templates directory created
\* above.
WriteTemplate ==
    /\ TemplatesDir \in dirs
    /\ ~Exists(IndexHtmlPath)
    /\ fs' = WriteFile(fs, IndexHtmlPath, IndexHtml)
    /\ UNCHANGED <<dirs, nodeModules, lastBuild, builds, watching, flask,
                   response>>

\* Create src/my.js (the README opens it as /src/my.js; the entry of
\* webpack.config.js and the command line name it relative to the project
\* directory), or change it later.
EditMyJs ==
    /\ SrcDir \in dirs
    /\ LET rev == IF Exists(MyJsPath) THEN fs[MyJsPath].rev ELSE 0 IN
         /\ rev < MaxEdits
         /\ fs' = WriteFile(fs, MyJsPath, MyJs(rev + 1))
    /\ UNCHANGED <<dirs, nodeModules, lastBuild, builds, watching, flask,
                   response>>

\* npm init -y
NpmInit ==
    /\ ProjectDir \in dirs
    /\ ~Exists(PackageJson)
    /\ fs' = WriteFile(fs, PackageJson, EmptyManifest)
    /\ dirs' = dirs \cup {NodeModulesDir}
    /\ UNCHANGED <<nodeModules, lastBuild, builds, watching, flask, response>>

\* npm install lodash --save
NpmInstallLodash ==
    /\ Exists(PackageJson)
    /\ "lodash" \notin nodeModules
    /\ nodeModules' = nodeModules \cup {"lodash"}
    /\ fs' = [fs EXCEPT ![PackageJson].dependencies = @ \cup {"lodash"}]
    /\ UNCHANGED <<dirs, lastBuild, builds, watching, flask, response>>

\* npm install --save-dev webpack
NpmInstallWebpack ==
    /\ Exists(PackageJson)
    /\ "webpack" \notin nodeModules
    /\ nodeModules' = nodeModules \cup {"webpack"}
    /\ fs' = [fs EXCEPT ![PackageJson].devDependencies = @ \cup {"webpack"}]
    /\ UNCHANGED <<dirs, lastBuild, builds, watching, flask, response>>

\* ./node_modules/.bin/webpack src/my.js static/bundle.js
WebpackCli ==
    /\ LET out == PathResolve(ProjectDir, CliArgs.output) IN
         RunWebpack(PathResolve(ProjectDir, CliArgs.entry),
                    SubSeq(out, 1, Len(out) - 1), out[Len(out)], "cli")
    /\ UNCHANGED <<nodeModules, watching, flask, response>>

\* vi webpack.config.js
WriteConfig ==
    /\ ProjectDir \in dirs
    /\ ~Exists(ConfigPath)
    /\ fs' = WriteFile(fs, ConfigPath, Config)
    /\ UNCHANGED <<dirs, nodeModules, lastBuild, builds, watching, flask,
                   response>>

\* add a line to the "scripts" of package.json
AddScript(name) ==
    /\ Exists(PackageJson)
    /\ name \notin fs[PackageJson].scripts
    /\ fs' = [fs EXCEPT ![PackageJson].scripts = @ \cup {name}]
    /\ UNCHANGED <<dirs, nodeModules, lastBuild, builds, watching, flask,
                   response>>

\* npm run build
NpmRunBuild ==
    /\ Exists(PackageJson)
    /\ "build" \in fs[PackageJson].scripts
    /\ RunConfigured("config")
    /\ UNCHANGED <<nodeModules, watching, flask, response>>

\* npm run watch: builds once and keeps watching the javascript files
NpmRunWatch ==
    /\ Exists(PackageJson)
    /\ "watch" \in fs[PackageJson].scripts
    /\ ~watching
    /\ RunConfigured("watch")
    /\ watching' = TRUE
    /\ UNCHANGED <<nodeModules, flask, response>>

\* the watch process regenerates bundle.js after a change of the source
WatchRebuild ==
    /\ watching
    /\ Exists(ScriptFile) /\ Exists(MyJsPath)
    /\ [path |-> MyJsPath, rev |-> fs[MyJsPath].rev]
           \notin fs[ScriptFile].modules
    /\ RunConfigured("watch")
    /\ UNCHANGED <<nodeModules, watching, flask, response>>

\* python app.py
FlaskStart ==
    /\ Exists(AppPyPath)
    /\ flask = "stopped"
    /\ flask' = "running"
    /\ UNCHANGED <<dirs, fs, nodeModules, lastBuild, builds, watching,
                   response>>

\* the browser opens localhost:5000
GetIndex ==
    /\ flask = "running"
    /\ response' =
         IF Exists(PathJoin(PathResolve(ProjectDir,
                                        <<fs[AppPyPath].template_folder>>),
                            fs[AppPyPath].renders))
         THEN [status |-> 200, url |-> <<>>, body |-> fs[IndexHtmlPath]]
         ELSE [status |-> 500, url |-> <<>>, body |-> NoBody]
    /\ UNCHANGED <<dirs, fs, nodeModules, lastBuild, builds, watching, flask>>

\* the browser loads the script the page refers to
GetScript ==
    /\ flask = "running"
    /\ response.status = 200 /\ response.body.kind = "template"
    /\ LET url  == UrlFor(response.body.script)
           file == ServeStatic(fs[AppPyPath], url) IN
         response' =
           IF Exists(file)
           THEN [status |-> 200, url |-> url, body |-> fs[file]]
           ELSE [status |-> 404, url |-> url, body |-> NoBody]
    /\ UNCHANGED <<dirs, fs, nodeModules, lastBuild, builds, watching, flask>>

Next ==
    \/ Mkdirs
    \/ WriteAppPy
    \/ WriteTemplate
    \/ EditMyJs
    \/ NpmInit
    \/ NpmInstallLodash
    \/ NpmInstallWebpack
    \/ WebpackCli
    \/ WriteConfig
    \/ \E name \in {"build", "watch"} : AddScript(name)
    \/ NpmRunBuild
    \/ NpmRunWatch
    \/ WatchRebuild
    \/ FlaskStart
    \/ GetIndex
    \/ GetScript

Spec == Init /\ [][Next]_vars

----------------------------------------------------------------------------
TypeOK ==
    /\ builds \in 0..MaxBuilds
    /\ watching \in BOOLEAN
    /\ flask \in {"stopped", "running"}
    /\ nodeModules \subseteq {"lodash", "webpack"}

----------------------------------------------------------------------------
\* The modules a bundle built from src/my.js has to contain: the entry
\* module and every module its imports resolve to.
RequiredModules ==
    {MyJsPath} \cup {ResolveImport(s) : s \in Range(fs[MyJsPath].imports)}

BundledPaths(b) == {m.path : m \in b.modules}

\* C3: after a successful build run with webpack.config.js (npm run build or
\* the watch process), exactly one file has been written, it is
\* static/bundle.js, that is the file the script tag of templates/index.html
\* makes the Flask application serve, and it contains the entry module
\* src/my.js and every module the entry resolves to (lodash).
C3_ConfiguredBuildYieldsStaticBundle ==
    (lastBuild.status = "ok" /\ lastBuild.via \in {"config", "watch"}) =>
        /\ lastBuild.emitted = {ScriptFile}
        /\ ScriptFile = PathResolve(ProjectDir, <<"static", "bundle.js">>)
        /\ Exists(ScriptFile)
        /\ fs[ScriptFile].kind = "bundle"
        /\ RequiredModules \subseteq BundledPaths(fs[ScriptFile])
        /\ ResolveImport("lodash") \in BundledPaths(fs[ScriptFile])

\* A configured build succeeded and the browser then received the bundle
\* through the script tag of the rendered page.
C3_Witness ==
    /\ lastBuild.status = "ok"
    /\ lastBuild.via = "config"
    /\ response.status = 200
    /\ response.url = UrlFor(IndexHtml.script)
    /\ response.body.kind = "bundle"
    /\ MyJsPath \in BundledPaths(response.body)

====
